---------------------------- MODULE Spec2Model ----------------------------
(***************************************************************************)
(* Model of the Pantheon metrics dashboard (src/metrics_dashboard.py, a    *)
(* Streamlit script that is re-run top to bottom on every interaction) and *)
(* of the command-line script (src/metrics.py).                            *)
(*                                                                         *)
(* Text is modelled at two grains.  Free text (the date reformatter) is a  *)
(* sequence of tokens: a token is either one character or a maximal        *)
(* substring of the shape dddd-dd-dd.  The terminus table is a sequence of *)
(* lines, each line a record that keeps what the parsers read from it: the *)
(* kind of line, the number of fields a split on runs of two or more       *)
(* blanks gives, the Period cell (a token), the Visits and Cache Hit Ratio *)
(* cells, and whether the integer columns are numerals.                    *)
(***************************************************************************)
EXTENDS Integers, Sequences, FiniteSets, TLC

\* ------------------------------------------------------------------ bounds
MaxRows == 5          \* data rows of a generated terminus table
MaxRuns == 3          \* script runs of a dashboard session, the page load included
MaxPrompts == 2       \* answers typed at the period prompt of the CLI script
MaxTokens == 3        \* tokens of a free text given to the date reformatter
MaxStrLen == 1        \* characters of a string given to the HTML export

\* ------------------------------------------------------- program constants
BaselineRows == 4     \* iloc[-5:-1]: the rows before the last one
RatioThreshold == 70  \* avg_ratio < 70
HttpOk == 200         \* response.status_code == 200
HeaderFields == 6     \* Period,Visits,Pages Served,Cache Hits,Cache Misses,Cache Hit Ratio

\* ------------------------------------------------------------------ tokens
\* A character of free text.
Chr(c) == [t |-> "chr", c |-> c, y |-> 0, m |-> 0, d |-> 0, yw |-> 0]
\* A substring dddd-dd-dd: year, month, day as written.
Ymd(y, m, d) == [t |-> "ymd", c |-> "", y |-> y, m |-> m, d |-> d, yw |-> 4]
\* A substring dd-dd-d..d as strftime("%m-%d-%Y") writes it; yw is the number
\* of digits of the year.
Mdy(y, m, d, yw) == [t |-> "mdy", c |-> "", y |-> y, m |-> m, d |-> d, yw |-> yw]

\* \w of the regular expression: letters, digits and the underscore.
WordChars == {"x", "T", "_", "7"}
OtherChars == {" ", "-"}

\* Whether the first (last) character of a token is a word character; every
\* date-shaped token starts and ends with a digit.
StartsWord(tok) == IF tok.t = "chr" THEN tok.c \in WordChars ELSE TRUE
EndsWord(tok) == IF tok.t = "chr" THEN tok.c \in WordChars ELSE TRUE

IsLeap(y) == (y % 4 = 0 /\ y % 100 # 0) \/ y % 400 = 0

DaysIn(y, m) ==
    IF m = 2 THEN (IF IsLeap(y) THEN 29 ELSE 28)
    ELSE IF m \in {4, 6, 9, 11} THEN 30 ELSE 31

\* datetime.strptime(s, "%Y-%m-%d") succeeds: datetime.MINYEAR is 1.
ValidDate(y, m, d) ==
    /\ y \in 1..9999
    /\ m \in 1..12
    /\ d \in 1..DaysIn(y, m)

\* Digits strftime("%Y") writes: four on platforms that zero-pad, otherwise
\* as many as the year has.
YearDigits(y, pads) ==
    IF pads THEN 4
    ELSE IF y < 10 THEN 1 ELSE IF y < 100 THEN 2 ELSE IF y < 1000 THEN 3 ELSE 4

\* replace_date with a swapped guard: reformats whatever matched.
replace_date_unchecked(tok, pads) ==
    Mdy(tok.y, tok.m, tok.d, YearDigits(tok.y, pads))

\* replace_date: the match reformatted, or returned as it is on ValueError.
replace_date(tok, pads) ==
    IF ValidDate(tok.y, tok.m, tok.d)
    THEN Mdy(tok.y, tok.m, tok.d, YearDigits(tok.y, pads))
    ELSE tok

\* The pattern \b(\d{4})-(\d{2})-(\d{2})\b matches token i of the text: the
\* token has the digit shape and a word boundary on both sides.
Matches(text, i) ==
    /\ text[i].t = "ymd"
    /\ (i = 1 \/ ~EndsWord(text[i - 1]))
    /\ (i = Len(text) \/ ~StartsWord(text[i + 1]))

\* reformat_date_in_output without the word boundaries.
reformat_every_date(text, pads) ==
    [i \in DOMAIN text |->
        IF text[i].t = "ymd" THEN replace_date(text[i], pads) ELSE text[i]]

\* re.sub(date_pattern, replace_date, output)
reformat_date_in_output(text, pads) ==
    [i \in DOMAIN text |->
        IF Matches(text, i) THEN replace_date(text[i], pads) ELSE text[i]]

\* ------------------------------------------------------------------- lines
Space == Chr(" ")

HeaderLine == [k |-> "header", nf |-> HeaderFields, per |-> Space,
               vis |-> 0, ratio |-> 0, num |-> TRUE]
SepLine == [k |-> "sep", nf |-> 1, per |-> Space,
            vis |-> 0, ratio |-> 0, num |-> TRUE]
BlankLine == [k |-> "blank", nf |-> 0, per |-> Space,
              vis |-> 0, ratio |-> 0, num |-> TRUE]
\* A line of text that is no part of the table (a notice, an error).
NoticeLine == [k |-> "text", nf |-> 1, per |-> Space,
               vis |-> 0, ratio |-> 0, num |-> TRUE]
\* A data line: nf fields, the first the Period cell, the last the ratio.
DataLine(nf, per, vis, ratio, num) ==
    [k |-> "data", nf |-> nf, per |-> per, vis |-> vis, ratio |-> ratio,
     num |-> num]

\* The dates of a table are written in a column, between blanks: the
\* reformatter sees each cell between two spaces.
ReformatLines(lines, pads) ==
    [i \in DOMAIN lines |->
        IF lines[i].k = "data"
        THEN [lines[i] EXCEPT
                !.per = reformat_date_in_output(<<Space, @, Space>>, pads)[2]]
        ELSE lines[i]]


\* -------------------------------------------------------------- DataFrame
\* A DataFrame: its rows in order and whether the Period column holds
\* datetimes (dt) or the strings of the table.  none is Python's None.
NoDF == [none |-> TRUE, rows |-> <<>>, dt |-> FALSE]
Frame(rows, dt) == [none |-> FALSE, rows |-> rows, dt |-> dt]
Row(line) == [per |-> line.per, vis |-> line.vis, ratio |-> line.ratio]

\* The outcome of a call: a value, or an exception that left the call.
Returned(df) == [exc |-> FALSE, df |-> df]
Raised == [exc |-> TRUE, df |-> NoDF]

RECURSIVE SumVisits(_)
SumVisits(rows) ==
    IF rows = <<>> THEN 0 ELSE Head(rows).vis + SumVisits(Tail(rows))

RECURSIVE SumRatios(_)
SumRatios(pairs) ==
    IF pairs = <<>> THEN 0 ELSE Head(pairs).ratio + SumRatios(Tail(pairs))

\* next(i for i, line in enumerate(lines) if "Period" in line and ...)
HeaderIdx(lines) ==
    LET hs == {i \in DOMAIN lines : lines[i].k = "header"}
    IN  IF hs = {} THEN 0 ELSE CHOOSE i \in hs : \A j \in hs : i <= j

\* The rows the loop of parse_table_to_df would keep if it started at the
\* line after the header: the parser as the specification words it.
DataLinesAfterHeader(lines) ==
    LET h == HeaderIdx(lines)
        Keep(l) == /\ l.k \notin {"blank", "sep"}
                   /\ l.nf = lines[h].nf
    IN  SelectSeq(SubSeq(lines, h + 1, Len(lines)), Keep)

\* for line in lines[header_idx+2:]: skip blank and "-" lines, keep the
\* lines that split into as many fields as the header.
DataLines(lines) ==
    LET h == HeaderIdx(lines)
        Keep(l) == /\ l.k \notin {"blank", "sep"}
                   /\ l.nf = lines[h].nf
    IN  SelectSeq(SubSeq(lines, h + 2, Len(lines)), Keep)

\* pd.to_datetime(df["Period"], format=fmt) succeeds: every cell is a valid
\* date written in that format.
AllDates(rows, fmt) ==
    \A i \in DOMAIN rows :
        /\ rows[i].per.t = fmt
        /\ rows[i].per.yw = 4
        /\ ValidDate(rows[i].per.y, rows[i].per.m, rows[i].per.d)

\* parse_table_to_df: None without a header or without rows; ValueError when
\* a kept row holds a cell that is no numeral; otherwise the frame, its
\* Period column converted when every cell parses as month-day-year or, that
\* failing, as year-month-day.
parse_table_to_df(lines) ==
    IF HeaderIdx(lines) = 0 THEN Returned(NoDF)
    ELSE LET data == DataLines(lines)
             rows == [i \in DOMAIN data |-> Row(data[i])]
         IN  IF data = <<>> THEN Returned(NoDF)
             ELSE IF \E i \in DOMAIN data :
                        data[i].k # "data" \/ ~data[i].num
                  THEN Raised
                  ELSE Returned(Frame(rows,
                           AllDates(rows, "mdy") \/ AllDates(rows, "ymd")))

\* extract_cache_hit_ratios of the dashboard: list(zip(Period, ratio)).
extract_cache_hit_ratios(df) ==
    IF df.none THEN <<>>
    ELSE [i \in DOMAIN df.rows |->
            [per |-> df.rows[i].per, ratio |-> df.rows[i].ratio]]

\* extract_cache_hit_ratios of the CLI script: every line after a header
\* line that splits into two or more parts and ends in a numeral gives
\* (first part, last part).
cli_extract_cache_hit_ratios(lines) ==
    LET h == HeaderIdx(lines)
        Keep(l) == l.k = "data" /\ l.nf >= 2
        kept == IF h = 0 THEN <<>>
                ELSE SelectSeq(SubSeq(lines, h + 1, Len(lines)), Keep)
    IN  [i \in DOMAIN kept |-> [per |-> kept[i].per, ratio |-> kept[i].ratio]]

\* The Debug Info lines extract_cache_hit_ratios prints.
cli_debug_info(lines) ==
    IF HeaderIdx(lines) = 0 THEN {"debug_no_header"}
    ELSE {"debug_header_found"} \cup
         (IF cli_extract_cache_hit_ratios(lines) = <<>>
          THEN {"debug_no_rows"} ELSE {})

\* ----------------------------------------------------- cache ratio summary
\* avg_ratio < 70 with the comparison off by one at the boundary.
BelowThresholdInclusive(sum, n) == sum <= RatioThreshold * n

\* avg_ratio < 70, for avg_ratio = sum / n.
BelowThreshold(sum, n) == sum < RatioThreshold * n

\* The cache breakdown text: the pairs listed, the average as the fraction
\* sum / n, and the note chosen.
cache_breakdown(cache_data) ==
    IF cache_data # <<>>
    THEN [listed |-> cache_data,
          sum |-> SumRatios(cache_data),
          n |-> Len(cache_data),
          note |-> IF BelowThreshold(SumRatios(cache_data), Len(cache_data))
                   THEN "inefficiency" ELSE "effective"]
    ELSE [listed |-> <<>>, sum |-> 0, n |-> 0, note |-> "unable"]

\* ------------------------------------------------------- anomaly detector
\* df["Visits"].iloc[-1]
recent_visits(df) == df.rows[Len(df.rows)].vis

\* df.iloc[-5:-1]: the four rows before the last one.
prev_rows(df) ==
    SubSeq(df.rows, Len(df.rows) - BaselineRows, Len(df.rows) - 1)

\* The detector with the guard len(df) > 3.
HasBaselineShort(df) == Len(df.rows) > BaselineRows - 1

\* "Visits" in df.columns and len(df) > 4
HasBaseline(df) == Len(df.rows) > BaselineRows

\* The trigger with >= for >.
IsAnomalyInclusive(df) ==
    LET sum == SumVisits(prev_rows(df))
    IN  sum > 0 /\ recent_visits(df) * BaselineRows * 100 >= sum * 125

\* avg_visits > 0 and recent_visits > avg_visits * 1.25, for
\* avg_visits = sum / 4: both sides multiplied by 400.
IsAnomaly(df) ==
    LET sum == SumVisits(prev_rows(df))
    IN  sum > 0 /\ recent_visits(df) * BaselineRows * 100 > sum * 125


\* ------------------------------------------------------------------- state
VARIABLES
    prog,               \* the script that runs: "dashboard", "cli", "reformat", "export"
    feed,               \* what terminus can answer: "session" (few results) or "tables"
    pc,                 \* the statement the script is at
    runs,               \* interactions (script runs) so far
    trigger,            \* the widget whose use started this run of the dashboard
    session_state,      \* st.session_state: df, reformatted_output, site_name, env_name, period
    site_name,          \* the form field / the answer typed at the prompt
    env_name,
    period,
    df,                 \* the script's variable df
    site_name_state,
    env_name_state,
    period_state,
    result,             \* what subprocess.run gave for env:metrics in this run
    shown,              \* what this run has put on the page / printed
    report,             \* summary text and cache breakdown text of this run
    posts,              \* the requests.post calls of this run, with the status each met
    fetch,              \* the command whose output session_state's df was parsed
                        \* from, and the alerts delivered for that table so far
    SLACK_WEBHOOK_URL,
    calls,              \* the external commands started in this run, in order
    running,            \* external commands started and not yet returned
    prompts,            \* answers read at the period prompt
    html_filename,
    html_file,          \* what was written to html_filename
    strftime_pads,      \* whether the platform's strftime("%Y") zero-pads
    text,               \* input of the date reformatter
    reformatted,        \* its output
    html_args,          \* the strings handed to the HTML export
    html_content        \* the document it returns

vars == <<prog, feed, pc, runs, trigger, session_state, site_name, env_name,
          period, df, site_name_state, env_name_state, period_state, result,
          shown, report, posts, fetch, SLACK_WEBHOOK_URL, calls, running,
          prompts, html_filename, html_file, strftime_pads, text, reformatted,
          html_args, html_content>>

dashVars == <<trigger, session_state, df, site_name_state, env_name_state,
              period_state, posts, fetch>>
cliVars == <<prompts, html_filename, html_file>>
pureVars == <<strftime_pads, text, reformatted, html_args, html_content>>
envVars == <<prog, feed, SLACK_WEBHOOK_URL>>

\* --------------------------------------------------------- terminus output
Day(i) == Ymd(2024, 5, i)

\* The (Visits, Cache Hit Ratio) cells a generated row can hold: any of
\* them in the last row, two of them in the four rows before it, one in the
\* rows further up.
RowVals == {<<0, 60>>, <<1000, 80>>, <<1250, 60>>, <<1251, 80>>}
BaseVals == {<<0, 60>>, <<1000, 80>>}
EarlyVal == <<1251, 80>>

GoodRow(i, val) == DataLine(HeaderFields, Day(i), val[1], val[2], TRUE)

\* A row that departs from the table's shape in one way.
SpecialKinds == {"short", "blank", "sep", "baddate", "label", "nan"}
SpecialRow(i, kind) ==
    CASE kind = "short"   -> DataLine(HeaderFields - 1, Day(i), 1000, 80, TRUE)
      [] kind = "blank"   -> BlankLine
      [] kind = "sep"     -> SepLine
      [] kind = "baddate" -> DataLine(HeaderFields, Ymd(2024, 2, 30), 1000, 80, TRUE)
      [] kind = "label"   -> DataLine(HeaderFields, Chr("x"), 1000, 80, TRUE)
      [] kind = "nan"     -> DataLine(HeaderFields, Day(i), 0, 80, FALSE)
      [] OTHER            -> GoodRow(i, <<1000, 80>>)

\* terminus prints the table between rules, a rule under the header.
Framed(rows) == <<SepLine, HeaderLine, SepLine>> \o rows \o <<SepLine>>

ValueTables ==
    { Framed([i \in 1..n |->
                GoodRow(i, IF i = n THEN last
                           ELSE IF i >= n - BaselineRows THEN base[n - i]
                           ELSE EarlyVal)]) :
        n \in 0..MaxRows, last \in RowVals,
        base \in [1..BaselineRows -> BaseVals] }

\* What comes before the rows: no header, a header with no rule under it,
\* a notice and a header with its rule.
Headers == {<<>>, <<HeaderLine>>, <<NoticeLine, HeaderLine, SepLine>>}

ShapeTables ==
    { hdr \o [i \in 1..n |->
                IF i = sp THEN SpecialRow(i, kind)
                ELSE GoodRow(i, <<1000, 80>>)] :
        hdr \in Headers, n \in 0..MaxRows,
        sp \in 0..MaxRows, kind \in SpecialKinds }

\* A CompletedProcess.  raised: subprocess.run raised instead of returning.
Completed(rc, out, err) ==
    [raised |-> FALSE, returncode |-> rc, stdout |-> out, stderr |-> err]
NoResult == [raised |-> FALSE, returncode |-> 0, stdout |-> <<>>, stderr |-> <<>>]
RunRaised == [raised |-> TRUE, returncode |-> 0, stdout |-> <<>>, stderr |-> <<>>]

Spike == [i \in 1..(BaselineRows + 1) |-> GoodRow(i, IF i > BaselineRows THEN <<1251, 80>> ELSE <<1000, 80>>)]
Labelled == [i \in 1..(BaselineRows + 1) |-> IF i = 1 THEN SpecialRow(i, "baddate")
                            ELSE GoodRow(i, <<1000, 80>>)]

Steady == [i \in 1..(BaselineRows + 1) |-> GoodRow(i, <<1000, 80>>)]

SessionResults ==
    { Completed(1, <<>>, <<"error">>),
      Completed(0, <<NoticeLine>>, <<"Deprecated">>),
      Completed(0, Framed(Steady), <<>>),
      Completed(0, Framed(Spike), <<"Deprecated", "error">>),
      Completed(0, Framed(Labelled), <<>>),
      Completed(0, Framed(<<SpecialRow(1, "nan")>>), <<>>),
      Completed(0, <<HeaderLine, GoodRow(1, <<1000, 80>>), GoodRow(2, <<0, 60>>)>>, <<>>) }

TableResults ==
    { Completed(0, out, <<>>) : out \in ValueTables \cup ShapeTables }

Results == IF feed = "tables" THEN TableResults ELSE SessionResults

\* ------------------------------------------------------------- the webhook
Urls == {"", "https://example.com/hook", "https://hooks.slack.com/services/T/B/x"}
\* "hooks.slack.com/services/" in SLACK_WEBHOOK_URL
ValidUrls == {"https://hooks.slack.com/services/T/B/x"}

\* What a POST can meet: a status code, or 0 for an exception of requests.
Responses == {HttpOk, 500, 0}

Message(kind, site, env, per, rows) ==
    [kind |-> kind, site |-> site, env |-> env, period |-> per, rows |-> rows]

\* send_slack_notification that counts every response as a success.
send_slack_notification_any(message, url, resp) ==
    IF url \notin ValidUrls
    THEN [ok |-> FALSE, msgs |-> {"warn_webhook_url"}, post |-> <<>>]
    ELSE IF resp = 0
    THEN [ok |-> FALSE, msgs |-> {"error_slack_exception"},
          post |-> <<[msg |-> message, status |-> resp]>>]
    ELSE [ok |-> TRUE, msgs |-> {},
          post |-> <<[msg |-> message, status |-> resp]>>]

\* send_slack_notification: what it returns, what it writes on the page and
\* the POST it makes.
send_slack_notification(message, url, resp) ==
    IF url \notin ValidUrls
    THEN [ok |-> FALSE, msgs |-> {"warn_webhook_url"}, post |-> <<>>]
    ELSE IF resp = 0
    THEN [ok |-> FALSE, msgs |-> {"error_slack_exception"},
          post |-> <<[msg |-> message, status |-> resp]>>]
    ELSE [ok |-> resp = HttpOk, msgs |-> {},
          post |-> <<[msg |-> message, status |-> resp]>>]


\* ------------------------------------------------------------ the dashboard
\* Python's truth of a string or None.
Truthy(s) == s \notin {"", "None"}

NoSummary == [written |-> FALSE, site |-> "None", env |-> "None", period |-> "None"]
Summary(site, env, per) ==
    [written |-> TRUE, site |-> site, env |-> env, period |-> per]
NoBreakdown == [listed |-> <<>>, sum |-> 0, n |-> 0, note |-> "none"]
NoReport == [summary |-> NoSummary, breakdown |-> NoBreakdown]

\* No table has been fetched in this session.
NoFetch == [site |-> "None", env |-> "None", period |-> "None", alerts |-> 0]

NoFile == [written |-> FALSE, site |-> "None", output |-> <<>>, errors |-> <<>>,
           summary |-> NoSummary, breakdown |-> NoBreakdown]

\* What the user can put in metrics_form.
Forms ==
    IF feed = "tables"
    THEN { [site |-> "alpha", env |-> "live", period |-> "day"] }
    ELSE { [site |-> "alpha", env |-> "live", period |-> "day"],
           [site |-> "beta", env |-> "live", period |-> "week"],
           [site |-> "alpha", env |-> "", period |-> "month"] }

Triggers == {"load", "submit", "test", "send_parsed", "download"}

\* Against the generated tables a session is the page load and one
\* interaction.
RunLimit == IF feed = "tables" THEN 2 ELSE MaxRuns

\* The guard with the checks of the fields left out.
SubmittingUnchecked == trigger = "submit"

\* submitted and site_name and env_name and period
Submitting ==
    trigger = "submit" /\ Truthy(site_name) /\ Truthy(env_name) /\ Truthy(period)

\* Lines 17-72: one interaction re-runs the script from the top; the form
\* returns its fields as last submitted, and the site and environment are
\* stored in the session when both are given.
Interact(trig, f) ==
    /\ prog = "dashboard"
    /\ pc = "idle"
    /\ runs < RunLimit
    /\ IF runs = 0 THEN trig = "load" ELSE trig # "load"
    /\ trig \in {"send_parsed", "download"} => "table" \in shown
    /\ runs' = runs + 1
    /\ trigger' = trig
    /\ site_name' = IF trig = "submit" THEN f.site ELSE site_name
    /\ env_name' = IF trig = "submit" THEN f.env ELSE env_name
    /\ period' = IF trig = "submit" THEN f.period ELSE period
    /\ session_state' =
         IF Truthy(site_name') /\ Truthy(env_name')
         THEN [session_state EXCEPT !.site_name = site_name',
                                    !.env_name = env_name']
         ELSE session_state
    /\ shown' = {}
    /\ report' = NoReport
    /\ posts' = <<>>
    /\ calls' = <<>>
    /\ result' = NoResult
    /\ df' = NoDF
    /\ site_name_state' = "None"
    /\ env_name_state' = "None"
    /\ period_state' = "None"
    /\ pc' = "whoami"
    /\ UNCHANGED <<running, fetch, envVars, cliVars, pureVars>>

\* get_terminus_user: subprocess.run(["terminus", "auth:whoami"]) starts.
WhoamiBegin ==
    /\ pc = "whoami"
    /\ calls' = Append(calls, "auth:whoami")
    /\ running' = running + 1
    /\ pc' = "whoami_wait"
    /\ UNCHANGED <<runs, site_name, env_name, period, result, shown, report,
                   dashVars, envVars, cliVars, pureVars>>

\* ... and returns (its output, or the text of the exception it raised).
WhoamiReturn ==
    /\ pc = "whoami_wait"
    /\ running' = running - 1
    /\ shown' = shown \cup {"terminus_user"}
    /\ pc' = "php"
    /\ UNCHANGED <<runs, site_name, env_name, period, result, report, calls,
                   dashVars, envVars, cliVars, pureVars>>

\* get_php_version for the session's site and environment.
PhpBegin ==
    /\ pc = "php"
    /\ Truthy(session_state.site_name) /\ Truthy(session_state.env_name)
    /\ calls' = Append(calls, "env:info")
    /\ running' = running + 1
    /\ pc' = "php_wait"
    /\ UNCHANGED <<runs, site_name, env_name, period, result, shown, report,
                   dashVars, envVars, cliVars, pureVars>>

PhpReturn ==
    /\ pc = "php_wait"
    /\ running' = running - 1
    /\ shown' = shown \cup {"php_version"}
    /\ pc' = "sidebar"
    /\ UNCHANGED <<runs, site_name, env_name, period, result, report, calls,
                   dashVars, envVars, cliVars, pureVars>>

\* PHP Version: N/A
PhpSkip ==
    /\ pc = "php"
    /\ ~(Truthy(session_state.site_name) /\ Truthy(session_state.env_name))
    /\ shown' = shown \cup {"php_na"}
    /\ pc' = "sidebar"
    /\ UNCHANGED <<runs, site_name, env_name, period, result, report, calls,
                   running, dashVars, envVars, cliVars, pureVars>>

\* df.head(5)
Head5(rows) == SubSeq(rows, 1, IF Len(rows) < 5 THEN Len(rows) ELSE 5)

TestMessage == Message("test", "example-site", "live", "", <<>>)

\* Lines 103-181: the test button, then the read of the session into the
\* script's variables.
Sidebar(resp) ==
    /\ pc = "sidebar"
    /\ LET sent == send_slack_notification(TestMessage, SLACK_WEBHOOK_URL, resp)
       IN  IF trigger = "test"
           THEN /\ posts' = posts \o sent.post
                /\ shown' = shown \cup sent.msgs \cup
                            {IF sent.ok THEN "test_sent" ELSE "test_failed"}
           ELSE UNCHANGED <<posts, shown>>
    /\ df' = session_state.df
    /\ site_name_state' = session_state.site_name
    /\ env_name_state' = session_state.env_name
    /\ period_state' = session_state.period
    /\ pc' = "submit"
    /\ UNCHANGED <<runs, trigger, session_state, site_name, env_name, period,
                   result, report, calls, running, fetch, envVars, cliVars,
                   pureVars>>

\* The form was not submitted, or a field of it is empty.
SubmitSkip ==
    /\ pc = "submit"
    /\ ~Submitting
    /\ pc' = "render"
    /\ UNCHANGED <<runs, site_name, env_name, period, result, shown, report,
                   calls, running, dashVars, envVars, cliVars, pureVars>>

\* Lines 183-206: the status line, the progress bar, and subprocess.run of
\* terminus env:metrics starts.
SubmitBegin ==
    /\ pc = "submit"
    /\ Submitting
    /\ shown' = shown \cup {"info_running"}
    /\ calls' = Append(calls, "env:metrics")
    /\ running' = running + 1
    /\ pc' = "submit_wait"
    /\ UNCHANGED <<runs, site_name, env_name, period, result, report,
                   dashVars, envVars, cliVars, pureVars>>

\* subprocess.run raises (terminus cannot be started): lines 223-225.
SubmitRaise ==
    /\ pc = "submit"
    /\ Submitting
    /\ calls' = Append(calls, "env:metrics")
    /\ result' = RunRaised
    /\ shown' = shown \cup {"error_occurred"}
    /\ pc' = "render"
    /\ UNCHANGED <<runs, site_name, env_name, period, report, running,
                   dashVars, envVars, cliVars, pureVars>>

\* Lines 206-225: the command returns, whatever its exit status; its
\* output is reformatted and parsed and the session is updated, or the
\* exception of the parser is reported.
SubmitReturn(res) ==
    /\ pc = "submit_wait"
    /\ running' = running - 1
    /\ result' = res
    /\ LET out == ReformatLines(res.stdout, strftime_pads)
           parsed == parse_table_to_df(out)
       IN  IF parsed.exc
           THEN /\ shown' = (shown \ {"info_running"}) \cup {"error_occurred"}
                /\ UNCHANGED <<df, session_state, site_name_state,
                               env_name_state, period_state, fetch>>
           ELSE /\ shown' = (shown \ {"info_running"}) \cup {"success_finished"}
                /\ df' = parsed.df
                /\ session_state' =
                     [df |-> parsed.df, reformatted_output |-> out,
                      site_name |-> site_name, env_name |-> env_name,
                      period |-> period]
                /\ site_name_state' = site_name
                /\ env_name_state' = env_name
                /\ period_state' = period
                /\ fetch' = [site |-> site_name, env |-> env_name,
                              period |-> period, alerts |-> 0]
    /\ pc' = "render"
    /\ UNCHANGED <<runs, trigger, site_name, env_name, period, report, calls,
                   posts, envVars, cliVars, pureVars>>

\* Lines 227-322 for a table: the page elements in order, the two uses of
\* the webhook, and the exception of line 280 when the Period column holds
\* strings (.dt on a column that is not datetime-like).
RenderTable(r1, r2) ==
    LET last5 == IF HasBaseline(df)
                 THEN SubSeq(df.rows, Len(df.rows) - BaselineRows, Len(df.rows))
                 ELSE <<>>
        parsed == send_slack_notification(
                      Message("parsed", site_name_state, env_name_state,
                              period_state, Head5(df.rows)),
                      SLACK_WEBHOOK_URL, r1)
        alert == send_slack_notification(
                      Message("alert", site_name_state, env_name_state,
                              "", last5),
                      SLACK_WEBHOOK_URL, r2)
        sends == trigger = "send_parsed"
        crash == HasBaseline(df) /\ ~df.dt
        alerts == HasBaseline(df) /\ df.dt /\ IsAnomaly(df)
    IN  /\ posts' = posts \o (IF sends THEN parsed.post ELSE <<>>)
                          \o (IF alerts THEN alert.post ELSE <<>>)
        /\ shown' = shown \cup {"table", "download_button", "charts", "gauge"}
             \cup (IF sends
                   THEN parsed.msgs \cup
                        {IF parsed.ok THEN "parsed_sent" ELSE "parsed_failed"}
                   ELSE {})
             \cup (IF alerts
                   THEN alert.msgs \cup
                        {IF alert.ok THEN "alert_sent" ELSE "alert_failed"}
                   ELSE {})
             \cup (IF crash THEN {"uncaught_exception"}
                   ELSE {"summary", "breakdown"})
        /\ report' =
             IF crash THEN NoReport
             ELSE [summary |-> Summary(site_name_state, env_name_state,
                                       period_state),
                   breakdown |-> cache_breakdown(extract_cache_hit_ratios(df))]
        /\ fetch' = IF alerts /\ alert.ok
                     THEN [fetch EXCEPT !.alerts = @ + 1]
                     ELSE fetch

\* Line 227: nothing is drawn without a table.
Render(r1, r2) ==
    /\ pc = "render"
    /\ IF ~df.none /\ df.rows # <<>>
       THEN RenderTable(r1, r2)
       ELSE UNCHANGED <<posts, shown, report, fetch>>
    /\ pc' = "idle"
    /\ UNCHANGED <<runs, trigger, session_state, df, site_name, env_name,
                   period, site_name_state, env_name_state, period_state,
                   result, calls, running, envVars, cliVars, pureVars>>


\* ------------------------------------------------------------ the CLI script
\* What the user can type at the period prompt, and str.lower of it.
Answers == IF feed = "tables" THEN {"day", "year"}
           ELSE {"day", "WEEK", "Month", "year"}
Lower(a) ==
    CASE a = "WEEK" -> "week"
      [] a = "Month" -> "month"
      [] OTHER -> a

\* The check of the loop letting one more word through.
PeriodsWithYear == {"day", "week", "month", "year"}

\* ["day", "week", "month"]
Periods == {"day", "week", "month"}

\* Lines 37-39: -h or --help prints the help text and exits.
CliHelp ==
    /\ prog = "cli"
    /\ pc = "cli_start"
    /\ shown' = shown \cup {"help"}
    /\ pc' = "cli_exit"
    /\ UNCHANGED <<runs, site_name, env_name, period, result, report, calls,
                   running, dashVars, envVars, cliVars, pureVars>>

\* Lines 54-59: the banner and the first three prompts.
CliPrompt(site, env, answer) ==
    /\ prog = "cli"
    /\ pc = "cli_start"
    /\ shown' = shown \cup {"banner"}
    /\ site_name' = site
    /\ env_name' = env
    /\ period' = Lower(answer)
    /\ prompts' = 1
    /\ pc' = "cli_period"
    /\ UNCHANGED <<runs, result, report, calls, running, html_filename,
                   html_file, dashVars, envVars, pureVars>>

\* Lines 62-64: the loop that asks again while the period is not valid.
CliReprompt(answer) ==
    /\ pc = "cli_period"
    /\ period \notin Periods
    /\ prompts < MaxPrompts
    /\ shown' = shown \cup {"invalid_period"}
    /\ period' = Lower(answer)
    /\ prompts' = prompts + 1
    /\ UNCHANGED <<pc, runs, site_name, env_name, result, report, calls,
                   running, html_filename, html_file, dashVars, envVars,
                   pureVars>>

\* Lines 67-87: the HTML prompts; the command is put together.
CliSaveChoice(filename) ==
    /\ pc = "cli_period"
    /\ period \in Periods
    /\ html_filename' = filename
    /\ pc' = "cli_run"
    /\ UNCHANGED <<runs, site_name, env_name, period, result, shown, report,
                   calls, running, prompts, html_file, dashVars, envVars,
                   pureVars>>

\* Lines 177-180: subprocess.run of terminus env:metrics starts.
CliRunBegin ==
    /\ pc = "cli_run"
    /\ shown' = shown \cup {"running"}
    /\ calls' = Append(calls, "env:metrics")
    /\ running' = running + 1
    /\ pc' = "cli_wait"
    /\ UNCHANGED <<runs, site_name, env_name, period, result, report,
                   dashVars, envVars, cliVars, pureVars>>

\* subprocess.run raises: lines 233-234.
CliRunRaise ==
    /\ pc = "cli_run"
    /\ shown' = shown \cup {"running", "error_occurred"}
    /\ calls' = Append(calls, "env:metrics")
    /\ result' = RunRaised
    /\ pc' = "cli_exit"
    /\ UNCHANGED <<runs, site_name, env_name, period, report, running,
                   dashVars, envVars, cliVars, pureVars>>

\* Lines 180-232: the command returns, whatever its exit status; the output
\* is printed with its dates reformatted, then the errors that are not
\* deprecation notices, the debug lines of the extraction, the summary and
\* the cache breakdown; the HTML file is written when a name was given.
CliRunReturn(res, write_ok) ==
    /\ pc = "cli_wait"
    /\ running' = running - 1
    /\ result' = res
    /\ LET reformatted_output == ReformatLines(res.stdout, strftime_pads)
           error_text == SelectSeq(res.stderr, LAMBDA l : l # "Deprecated")
           cache_data == cli_extract_cache_hit_ratios(res.stdout)
           summary_text == Summary(site_name, env_name, period)
           cache_breakdown_text == cache_breakdown(cache_data)
       IN  /\ report' = [summary |-> summary_text,
                         breakdown |-> cache_breakdown_text]
           /\ html_file' =
                IF html_filename # "" /\ write_ok
                THEN [written |-> TRUE, site |-> site_name,
                      output |-> reformatted_output, errors |-> error_text,
                      summary |-> summary_text,
                      breakdown |-> cache_breakdown_text]
                ELSE html_file
           /\ shown' = shown \cup {"output", "summary", "breakdown"}
                \cup (IF error_text # <<>> THEN {"errors"} ELSE {})
                \cup cli_debug_info(res.stdout)
                \cup (IF html_filename = "" THEN {}
                      ELSE IF write_ok THEN {"saved"} ELSE {"save_failed"})
    /\ pc' = "cli_exit"
    /\ UNCHANGED <<runs, site_name, env_name, period, calls, prompts,
                   html_filename, dashVars, envVars, pureVars>>

\* ------------------------------------------------ the initial state and Next
InitShared ==
    /\ prog \in {"dashboard", "cli"}
    /\ pc = IF prog = "dashboard" THEN "idle" ELSE "cli_start"
    /\ runs = 0
    /\ trigger = "none"
    /\ session_state = [df |-> NoDF, reformatted_output |-> <<>>,
                        site_name |-> "None", env_name |-> "None",
                        period |-> "None"]
    /\ site_name = ""
    /\ env_name = ""
    /\ period = "day"
    /\ df = NoDF
    /\ site_name_state = "None"
    /\ env_name_state = "None"
    /\ period_state = "None"
    /\ result = NoResult
    /\ shown = {}
    /\ report = NoReport
    /\ posts = <<>>
    /\ fetch = NoFetch
    /\ SLACK_WEBHOOK_URL \in (IF prog = "dashboard" THEN Urls ELSE {""})
    /\ calls = <<>>
    /\ running = 0
    /\ prompts = 0
    /\ html_filename = ""
    /\ html_file = NoFile
    /\ strftime_pads = TRUE
    /\ text = <<>>
    /\ reformatted = <<>>
    /\ html_args = <<>>
    /\ html_content = <<>>

\* A session of the dashboard, or a run of the CLI script, against a
\* terminus that gives one of a few results.
Init == InitShared /\ feed = "session"

\* One submission, against a terminus that prints any table of the
\* generated family.
InitTables == InitShared /\ feed = "tables"

Next ==
    \/ \E trig \in Triggers, f \in Forms : Interact(trig, f)
    \/ WhoamiBegin
    \/ WhoamiReturn
    \/ PhpBegin
    \/ PhpReturn
    \/ PhpSkip
    \/ \E resp \in Responses : Sidebar(resp)
    \/ SubmitSkip
    \/ SubmitBegin
    \/ SubmitRaise
    \/ \E res \in Results : SubmitReturn(res)
    \/ \E r1 \in Responses, r2 \in Responses : Render(r1, r2)
    \/ CliHelp
    \/ \E site \in {"alpha"}, env \in {"live"}, a \in Answers :
          CliPrompt(site, env, a)
    \/ \E a \in Answers : CliReprompt(a)
    \/ \E filename \in {"", "out.html"} : CliSaveChoice(filename)
    \/ CliRunBegin
    \/ CliRunRaise
    \/ \E res \in Results, write_ok \in BOOLEAN : CliRunReturn(res, write_ok)

Spec == Init /\ [][Next]_vars

SpecTables == InitTables /\ [][Next]_vars

\* ------------------------------------------------- the date reformatter alone
DateToks == {Ymd(2024, 2, 29), Ymd(2023, 2, 29), Ymd(999, 12, 31), Ymd(2024, 13, 1)}
CharToks == {Chr(c) : c \in {"T", "7", " ", "-"}}

Texts == UNION {[1..n -> DateToks \cup CharToks] : n \in 0..MaxTokens}

InitIdle ==
    /\ feed = "session"
    /\ runs = 0
    /\ trigger = "none"
    /\ session_state = [df |-> NoDF, reformatted_output |-> <<>>,
                        site_name |-> "None", env_name |-> "None",
                        period |-> "None"]
    /\ site_name = ""
    /\ env_name = ""
    /\ period = "day"
    /\ df = NoDF
    /\ site_name_state = "None"
    /\ env_name_state = "None"
    /\ period_state = "None"
    /\ result = NoResult
    /\ shown = {}
    /\ report = NoReport
    /\ posts = <<>>
    /\ fetch = NoFetch
    /\ SLACK_WEBHOOK_URL = ""
    /\ calls = <<>>
    /\ running = 0
    /\ prompts = 0
    /\ html_filename = ""
    /\ html_file = NoFile

procVars == <<feed, runs, trigger, session_state, site_name, env_name, period,
              df, site_name_state, env_name_state, period_state, result,
              shown, report, posts, fetch, SLACK_WEBHOOK_URL, calls,
              running, prompts, html_filename, html_file>>

\* Any text, on a platform of either kind.
InitDate ==
    /\ InitIdle
    /\ prog = "reformat"
    /\ pc = "reformat_ready"
    /\ strftime_pads \in BOOLEAN
    /\ text \in Texts
    /\ reformatted = <<>>
    /\ html_args = <<>>
    /\ html_content = <<>>

\* reformatted_output = reformat_date_in_output(result.stdout)
Reformat ==
    /\ pc = "reformat_ready"
    /\ reformatted' = reformat_date_in_output(text, strftime_pads)
    /\ pc' = "reformat_done"
    /\ UNCHANGED <<prog, procVars, strftime_pads, text, html_args, html_content>>

\* The end of the script.
Finish ==
    /\ pc = "reformat_done"
    /\ pc' = "exit"
    /\ UNCHANGED <<prog, procVars, pureVars>>

NextDate == Reformat \/ Finish

SpecDate == InitDate /\ [][NextDate]_vars

\* --------------------------------------------------------- the HTML export
\* Strings are sequences of characters here.
HtmlChars == {"a", "<", ">", "&", "\"", "'"}
Strs == UNION {[1..n -> HtmlChars] : n \in 0..MaxStrLen}

RECURSIVE Concat(_)
Concat(seqs) == IF seqs = <<>> THEN <<>> ELSE Head(seqs) \o Concat(Tail(seqs))

\* html.escape of one character (quote=True).
EscapeChar(c) ==
    CASE c = "&"  -> <<"&", "a", "m", "p", ";">>
      [] c = "<"  -> <<"&", "l", "t", ";">>
      [] c = ">"  -> <<"&", "g", "t", ";">>
      [] c = "\"" -> <<"&", "q", "u", "o", "t", ";">>
      [] c = "'"  -> <<"&", "#", "x", "2", "7", ";">>
      [] OTHER    -> <<c>>

\* html.escape
Escape(str) == Concat([i \in DOMAIN str |-> EscapeChar(str[i])])

\* A piece of the document: a part of the template, or a value put in it.
Tpl(name) == [tpl |-> TRUE, name |-> name, chars |-> <<>>]
Val(name, chars) == [tpl |-> FALSE, name |-> name, chars |-> chars]

\* create_html_output that puts the site name in the heading as it is.
create_html_output_raw_site(reformatted_output, error_text, summary_text, cache_breakdown_text, site) ==
    <<Tpl("head"), Val("site_name", site),
      Tpl("output"), Val("output", Escape(reformatted_output))>>
    \o (IF error_text # <<>>
        THEN <<Tpl("errors"), Val("errors", Escape(error_text))>> ELSE <<>>)
    \o <<Tpl("summary"), Val("summary", Escape(summary_text)),
         Tpl("breakdown"), Val("breakdown", Escape(cache_breakdown_text)),
         Tpl("tail")>>

\* create_html_output: the template with the five values escaped; the
\* errors section only for a non-empty error text.
create_html_output(reformatted_output, error_text, summary_text, cache_breakdown_text, site) ==
    <<Tpl("head"), Val("site_name", Escape(site)),
      Tpl("output"), Val("output", Escape(reformatted_output))>>
    \o (IF error_text # <<>>
        THEN <<Tpl("errors"), Val("errors", Escape(error_text))>> ELSE <<>>)
    \o <<Tpl("summary"), Val("summary", Escape(summary_text)),
         Tpl("breakdown"), Val("breakdown", Escape(cache_breakdown_text)),
         Tpl("tail")>>

\* summary_text: the sentence with the site, the environment and the
\* period between quotes.
SummaryText(site, env, per) ==
    <<"s", "'">> \o site \o <<"'", "e", "'">> \o env \o <<"'", "p", "'">>
    \o per \o <<"'">>

\* cache_breakdown_text for one row: the period cell as terminus printed it.
BreakdownText(cell) == <<"P", " ">> \o cell \o <<":", " ", "8", "%">>

EnvNames == {<<"l">>, <<"'">>, <<"<", ">">>}
ErrorTexts == {<<>>, <<"&">>, <<"<">>}

InitHtml ==
    /\ InitIdle
    /\ prog = "export"
    /\ pc = "export_ready"
    /\ strftime_pads = TRUE
    /\ text = <<>>
    /\ reformatted = <<>>
    /\ html_args \in { [site |-> s, env |-> e, output |-> o, errors |-> r] :
                          s \in Strs, e \in EnvNames, o \in Strs, r \in ErrorTexts }
    /\ html_content = <<>>

\* Lines 203-227: the summary and breakdown texts are built and the
\* document is made from them, the output, the errors and the site name.
Export ==
    /\ pc = "export_ready"
    /\ html_content' =
         create_html_output(html_args.output, html_args.errors,
                            SummaryText(html_args.site, html_args.env, <<"d">>),
                            BreakdownText(html_args.output), html_args.site)
    /\ pc' = "export_done"
    /\ UNCHANGED <<prog, procVars, strftime_pads, text, reformatted, html_args>>

\* with open(html_filename, 'w') ...: the document is written out.
Written ==
    /\ pc = "export_done"
    /\ pc' = "exit"
    /\ UNCHANGED <<prog, procVars, pureVars>>

NextHtml == Export \/ Written

SpecHtml == InitHtml /\ [][NextHtml]_vars


\* ---------------------------------------------------------------- claims
Range(seq) == {seq[i] : i \in DOMAIN seq}

\* A run of the dashboard script has reached its end.
DashRunDone == prog = "dashboard" /\ pc = "idle" /\ runs > 0
\* ... and it ran terminus env:metrics.
DashFetched == DashRunDone /\ "env:metrics" \in Range(calls)
\* The CLI script has ended after running terminus env:metrics.
CliFetched == prog = "cli" /\ pc = "cli_exit" /\ "env:metrics" \in Range(calls)

Visits(rows) == [i \in DOMAIN rows |-> rows[i].vis]
Ratios(pairs) == [i \in DOMAIN pairs |-> pairs[i].ratio]

\* The anomaly alert was handed to the webhook in this run (sent, or the
\* failure to send it reported).
AlertEmitted == shown \cap {"alert_sent", "alert_failed"} # {}

\* C1: for a table whose Period column holds dates, the anomaly alert is
\* emitted if and only if the table has at least 5 rows, the mean of the
\* Visits of the 4 rows before the last is greater than 0 and the last
\* row's Visits is greater than that mean times 1.25 (in integers: 16 times
\* the last is greater than 5 times the sum of the four).  Baseline
\* 1000,1000,1000,1000 with 1251 triggers, with 1250 does not, and 4 or
\* fewer rows give no event.
C1_AnomalyIff ==
    (DashRunDone /\ ~df.none /\ df.dt) =>
        LET n == Len(df.rows)
            v == Visits(df.rows)
            base == v[n - 4] + v[n - 3] + v[n - 2] + v[n - 1]
        IN  /\ AlertEmitted <=>
                 (n >= 5 /\ base > 0 /\ 16 * v[n] > 5 * base)
            /\ v = <<1000, 1000, 1000, 1000, 1251>> => AlertEmitted
            /\ v = <<1000, 1000, 1000, 1000, 1250>> => ~AlertEmitted
            /\ n <= 4 => ~AlertEmitted

C1_Witness ==
    /\ DashRunDone /\ ~df.none /\ df.dt
    /\ Visits(df.rows) = <<1000, 1000, 1000, 1000, 1251>>
    /\ "alert_sent" \in shown
    /\ Len(posts) = 1 /\ posts[1].msg.kind = "alert"

\* C2: every line after the first header line that is neither blank nor a
\* separator becomes a row of the result if and only if it has as many
\* fields as the header, in source order; a header followed by one data
\* row of the same width gives exactly one row.
C2_RowsAfterHeader ==
    (DashFetched /\ "success_finished" \in shown) =>
        LET lines == ReformatLines(result.stdout, strftime_pads)
            kept == DataLinesAfterHeader(lines)
        IN  /\ HeaderIdx(lines) # 0 =>
                 df.rows = [i \in DOMAIN kept |-> Row(kept[i])]
            /\ (HeaderIdx(lines) # 0 /\ Len(kept) = 1) => Len(df.rows) = 1

\* The text has no header line, or no line after it passes the field count.
NoTableIn(lines) ==
    HeaderIdx(lines) = 0 \/ DataLinesAfterHeader(lines) = <<>>

\* A message on the page (or the terminal) that says the table could not
\* be read.
ParseDiagnostic ==
    \/ shown \cap {"debug_no_header", "debug_no_rows", "error_occurred"} # {}
    \/ report.breakdown.note = "unable"

\* C3: when the fetched text has no header line, or no data row passes the
\* field count, the parser gives the no-table result without raising and
\* the user is shown a diagnostic message about it.
C3_ParseFailureDiagnosed ==
    ((DashFetched \/ CliFetched) /\ ~result.raised /\ NoTableIn(result.stdout)) =>
        /\ "uncaught_exception" \notin shown
        /\ prog = "dashboard" => df.none
        /\ ParseDiagnostic

\* The parts of a report.
ReportParts == {"output", "summary", "breakdown", "table", "charts", "gauge",
                "saved", "alert_sent", "alert_failed"}

\* C4: when terminus env:metrics fails, by a non-zero exit status or by an
\* exception, the failure is caught, a message is shown and no report
\* (output, summary, breakdown, HTML file, table, charts, alert) is made.
C4_FailureNoReport ==
    ((DashFetched \/ CliFetched) /\ (result.raised \/ result.returncode # 0)) =>
        /\ shown \cap {"error_occurred", "errors"} # {}
        /\ shown \cap ReportParts = {}
        /\ ~html_file.written
        /\ ~report.summary.written

\* C5: a Period column that cannot be read as dates keeps its strings, and
\* for every parsed table the render runs to its end (summary and cache
\* breakdown included) without an unhandled exception.
C5_RenderCompletes ==
    (DashRunDone /\ "table" \in shown) =>
        /\ "uncaught_exception" \notin shown
        /\ {"summary", "breakdown"} \subseteq shown

\* The list of (period, ratio) pairs the summarizer was given.
CacheData ==
    IF prog = "dashboard" THEN [i \in DOMAIN df.rows |->
                                  [per |-> df.rows[i].per,
                                   ratio |-> df.rows[i].ratio]]
    ELSE cli_extract_cache_hit_ratios(result.stdout)

\* C6: for a non-empty list of (period, ratio) pairs the breakdown lists
\* the pairs in table order, reports their arithmetic mean, and notes
\* "inefficiency" exactly when the mean is below 70 and "effective" exactly
\* when it is 70 or more (80 and 60 give 70 and "effective"); for an empty
\* list it reports that no data could be extracted, with no division.
C6_Breakdown ==
    ((DashRunDone \/ CliFetched) /\ "breakdown" \in shown) =>
        LET b == report.breakdown
        IN  IF CacheData # <<>>
            THEN /\ b.listed = CacheData
                 /\ b.n = Len(CacheData)
                 /\ b.sum = SumRatios(CacheData)
                 /\ b.note = "inefficiency" <=> b.sum < 70 * b.n
                 /\ b.note = "effective" <=> b.sum >= 70 * b.n
                 /\ Ratios(CacheData) = <<80, 60>> =>
                        b.sum = 2 * 70 /\ b.note = "effective"
            ELSE b.note = "unable" /\ b.n = 0

C6_Witness ==
    /\ (DashRunDone \/ CliFetched) /\ "breakdown" \in shown
    /\ Ratios(CacheData) = <<80, 60>>
    /\ report.breakdown.note = "effective"


\* Token i of the text stands between characters that are no letters,
\* digits or underscores (or at an end of the text).
Delimited(txt, i) ==
    /\ (i = 1 \/ txt[i - 1] \in {Chr(" "), Chr("-")})
    /\ (i = Len(txt) \/ txt[i + 1] \in {Chr(" "), Chr("-")})

ReformatDone == prog = "reformat" /\ pc = "reformat_done"

\* The token is the date y-m-d written month first.
SameDateMonthFirst(tok, src) ==
    tok.t = "mdy" /\ tok.y = src.y /\ tok.m = src.m /\ tok.d = src.d

\* C7 as stated: every valid YYYY-MM-DD date of the input is replaced by
\* the equivalent MM-DD-YYYY date in its place, and nothing else changes
\* (dates that are no calendar dates included).
C7_EveryValidDate ==
    ReformatDone =>
        /\ Len(reformatted) = Len(text)
        /\ \A i \in DOMAIN text :
             IF text[i].t = "ymd" /\ ValidDate(text[i].y, text[i].m, text[i].d)
             THEN SameDateMonthFirst(reformatted[i], text[i])
             ELSE reformatted[i] = text[i]

\* C7 amended: every valid YYYY-MM-DD date that no letter, digit or
\* underscore adjoins is replaced by the same date as MM-DD-YYYY (a year
\* before 1000 written with four digits or without its leading zeros, as
\* the platform's strftime does); everything else, dates that are no
\* calendar dates and dates a word character adjoins included, is unchanged.
C7_DelimitedValidDate ==
    ReformatDone =>
        /\ Len(reformatted) = Len(text)
        /\ \A i \in DOMAIN text :
             IF /\ text[i].t = "ymd"
                /\ ValidDate(text[i].y, text[i].m, text[i].d)
                /\ Delimited(text, i)
             THEN /\ SameDateMonthFirst(reformatted[i], text[i])
                  /\ text[i].y >= 1000 => reformatted[i].yw = 4
                  /\ reformatted[i].yw \in {3, 4}
             ELSE reformatted[i] = text[i]

C7_Witness ==
    /\ ReformatDone
    /\ text = <<Ymd(2024, 2, 29), Chr(" "), Ymd(2023, 2, 29)>>
    /\ reformatted = <<Mdy(2024, 2, 29, 4), Chr(" "), Ymd(2023, 2, 29)>>

\* html.unescape of the five entities html.escape writes.
RECURSIVE Unescape(_)
Unescape(cs) ==
    LET Starts(e) == Len(cs) >= Len(e) /\ SubSeq(cs, 1, Len(e)) = e
        Rest(e) == SubSeq(cs, Len(e) + 1, Len(cs))
    IN  IF cs = <<>> THEN <<>>
        ELSE IF Starts(EscapeChar("&")) THEN <<"&">> \o Unescape(Rest(EscapeChar("&")))
        ELSE IF Starts(EscapeChar("<")) THEN <<"<">> \o Unescape(Rest(EscapeChar("<")))
        ELSE IF Starts(EscapeChar(">")) THEN <<">">> \o Unescape(Rest(EscapeChar(">")))
        ELSE IF Starts(EscapeChar("\"")) THEN <<"\"">> \o Unescape(Rest(EscapeChar("\"")))
        ELSE IF Starts(EscapeChar("'")) THEN <<"'">> \o Unescape(Rest(EscapeChar("'")))
        ELSE <<Head(cs)>> \o Unescape(Tail(cs))

\* The characters are text to a browser: no <, >, " or ', and every & opens
\* one of the five entities.
PlainText(cs) ==
    /\ \A i \in DOMAIN cs : cs[i] \notin {"<", ">", "\"", "'"}
    /\ \A i \in DOMAIN cs :
         cs[i] = "&" =>
            \E c \in HtmlChars :
               /\ Len(EscapeChar(c)) > 1
               /\ i + Len(EscapeChar(c)) - 1 <= Len(cs)
               /\ SubSeq(cs, i, i + Len(EscapeChar(c)) - 1) = EscapeChar(c)

\* The value the document holds under a name.
ValueOf(doc, name) ==
    LET is == {i \in DOMAIN doc : ~doc[i].tpl /\ doc[i].name = name}
    IN  IF is = {} THEN <<>> ELSE doc[CHOOSE i \in is : TRUE].chars

ExportDone == prog = "export" /\ pc = "export_done"

\* C10: every value placed in the document (site name, command output,
\* error text, summary text with the site and environment names, cache
\* breakdown) is HTML-escaped: it holds no <, >, & or quote of the input as
\* markup, and unescaping it gives the input text back.
C10_Escaped ==
    ExportDone =>
        /\ \A i \in DOMAIN html_content :
             ~html_content[i].tpl => PlainText(html_content[i].chars)
        /\ Unescape(ValueOf(html_content, "site_name")) = html_args.site
        /\ Unescape(ValueOf(html_content, "output")) = html_args.output
        /\ Unescape(ValueOf(html_content, "errors")) = html_args.errors
        /\ Unescape(ValueOf(html_content, "summary")) =
             SummaryText(html_args.site, html_args.env, <<"d">>)
        /\ Unescape(ValueOf(html_content, "breakdown")) =
             BreakdownText(html_args.output)

C10_Witness ==
    /\ ExportDone
    /\ html_args.site = <<"<">>
    /\ html_args.errors = <<"&">>
    /\ ValueOf(html_content, "site_name") = <<"&", "l", "t", ";">>


\* The webhook was used for a message of this kind in this run.
Attempted(kind) ==
    \/ kind = "test" /\ trigger = "test"
    \/ kind = "parsed" /\ trigger = "send_parsed" /\ "table" \in shown
    \/ kind = "alert" /\ ~df.none /\ df.dt /\ Len(df.rows) >= 5 /\ IsAnomaly(df)

\* A POST of a message of this kind was made.
Posted(kind) == \E i \in DOMAIN posts : posts[i].msg.kind = kind

\* ... to a valid webhook URL, and it met status 200.
Delivered(kind) ==
    /\ SLACK_WEBHOOK_URL \in ValidUrls
    /\ \E i \in DOMAIN posts :
         posts[i].msg.kind = kind /\ posts[i].status = 200

SentNote(kind) ==
    CASE kind = "test" -> "test_sent"
      [] kind = "parsed" -> "parsed_sent"
      [] OTHER -> "alert_sent"

FailedNote(kind) ==
    CASE kind = "test" -> "test_failed"
      [] kind = "parsed" -> "parsed_failed"
      [] OTHER -> "alert_failed"

\* C8: a use of the webhook reports success if and only if a valid URL is
\* configured and the POST met HTTP 200; on every failure (another status,
\* an exception, an unset or malformed URL, and then no POST is made) a
\* failure message is shown, nothing is raised, and the run still goes on
\* to render the summary and the cache breakdown of the table.
C8_WebhookNonFatal ==
    DashRunDone =>
        \A kind \in {"test", "parsed", "alert"} :
            Attempted(kind) =>
                /\ SentNote(kind) \in shown <=> Delivered(kind)
                /\ SLACK_WEBHOOK_URL \notin ValidUrls => ~Posted(kind)
                /\ ~Delivered(kind) =>
                     /\ FailedNote(kind) \in shown
                     /\ "uncaught_exception" \notin shown
                     /\ "table" \in shown =>
                            {"summary", "breakdown"} \subseteq shown

Count(seq, x) == Cardinality({i \in DOMAIN seq : seq[i] = x})

\* A run of either script has ended, a request for the help text aside.
ActionDone ==
    \/ DashRunDone
    \/ prog = "cli" /\ pc = "cli_exit" /\ "help" \notin shown

\* C9 as stated: every user action causes exactly one external-command
\* invocation, and no two invocations are in progress at the same time.
C9_OneInvocation ==
    /\ running <= 1
    /\ ActionDone => Len(calls) = 1

\* C9 amended: every user action causes at most one invocation of terminus
\* env:metrics: exactly one for a run of the CLI script that is no request
\* for help and for a dashboard run whose form was submitted with site and
\* environment filled in, none otherwise; every dashboard run also invokes
\* terminus auth:whoami once and, when the session knows a site and an
\* environment, terminus env:info once; each invocation blocks the script
\* until it returns and no two are in progress at the same time.
C9_Sequential ==
    /\ running \in {0, 1}
    /\ running = 1 <=> pc \in {"whoami_wait", "php_wait", "submit_wait", "cli_wait"}
    /\ DashRunDone =>
         /\ Count(calls, "env:metrics") =
              (IF trigger = "submit" /\ site_name # "" /\ env_name # ""
               THEN 1 ELSE 0)
         /\ Count(calls, "auth:whoami") = 1
         /\ Count(calls, "env:info") =
              (IF session_state.site_name \notin {"", "None"} THEN 1 ELSE 0)
         /\ Len(calls) <= 3
    /\ (prog = "cli" /\ pc = "cli_exit") =>
         calls = (IF "help" \in shown THEN <<>> ELSE <<"env:metrics">>)

C9_Witness ==
    /\ DashRunDone
    /\ calls = <<"auth:whoami", "env:info", "env:metrics">>
    /\ running = 0


\* The command of terminus env:metrics has been put together in this run
\* (its --period argument is the variable period, which no later statement
\* of the run assigns).
CommandBuilt ==
    \/ "env:metrics" \in Range(calls)
    \/ prog = "cli" /\ pc \in {"cli_run", "cli_wait"}

\* C11: the env:metrics command is built and invoked only with a --period
\* value among day, week and month; the CLI script lower-cases the answer
\* and stays at the period prompt for as long as the period it holds is
\* outside that set, so that no command exists before a valid period has
\* been entered.
C11_ValidPeriod ==
    /\ CommandBuilt => period \in {"day", "week", "month"}
    /\ (prog = "cli" /\ CommandBuilt) => prompts >= 1
    /\ (prog = "cli" /\ prompts >= 1 /\ period \notin {"day", "week", "month"}) =>
         /\ pc = "cli_period"
         /\ calls = <<>>
         /\ running = 0
    /\ prog = "cli" => period \notin {"WEEK", "Month"}

\* An invalid answer, then WEEK: the command ran with --period week.
C11_Witness ==
    /\ prog = "cli"
    /\ pc = "cli_exit"
    /\ "invalid_period" \in shown
    /\ prompts = 2
    /\ period = "week"
    /\ calls = <<"env:metrics">>

\* The site, environment and period this run labels the table with are the
\* ones of the command the table was fetched with.
LabelsOfFetch ==
    /\ site_name_state = fetch.site
    /\ env_name_state = fetch.env
    /\ period_state = fetch.period
    /\ \A i \in DOMAIN posts :
         posts[i].msg.kind \in {"parsed", "alert"} =>
           /\ posts[i].msg.site = fetch.site
           /\ posts[i].msg.env = fetch.env
    /\ report.summary.written =>
         /\ report.summary.site = fetch.site
         /\ report.summary.env = fetch.env
         /\ report.summary.period = fetch.period

\* C12: at the end of every run of the dashboard that shows a table, the
\* table is the one the session holds and the site name, environment name
\* and period it is labelled with (CSV file name, Slack messages, summary
\* text) are those of the fetch the table came from; a submission whose
\* fetch or parse raises does not leave the earlier table shown or alerted
\* under the newly entered site and environment.
C12_SameFetch ==
    (DashRunDone /\ "table" \in shown) =>
        /\ df = session_state.df
        /\ LabelsOfFetch

\* C13: for each fetched table that satisfies the anomaly trigger, the
\* anomaly alert is delivered to the webhook at most once, whatever further
\* interactions (test notification, send parsed metrics, CSV download)
\* re-run the script before the next fetch.
C13_AlertOnce == fetch.alerts <= 1

=============================================================================
